---- MODULE Spec2Model ----
(***************************************************************************)
(* Model of the header-only libraries of the goodies repository.           *)
(*                                                                         *)
(* ht.h: open-addressing hash table with linear probing, FNV-1a hashing    *)
(* and growth by doubling.  Keys are C strings held by pointer, values are *)
(* void pointers, NULL marks an empty slot.                                *)
(***************************************************************************)
EXTENDS Integers, Sequences, FiniteSets, TLC

(***************************************************************************)
(* Bounds of the model.                                                    *)
(***************************************************************************)
\* largest capacity handed to ht_new_map
MaxInitCap == 4
\* largest number of ht_set calls on one map
MaxOps == 3
\* width of size_t in the model, in bits
SIZE_BITS == 6

(***************************************************************************)
(* Pointers.  NULL is the null pointer; a key pointer is a positive number *)
(* naming a C string, and two different pointers may name equal strings.   *)
(***************************************************************************)
NULL == 0

\* the strings the callers pass, without the terminator: "foo", "bar", "asdf"
\* and a second copy of "foo" at another address
Content ==
  <<  <<102, 111, 111>>,
      <<98, 97, 114>>,
      <<97, 115, 100, 102>>,
      <<102, 111, 111>> >>

KeyPtrs == DOMAIN Content
FOO == 1
BAR == 2
ASDF == 3
FOO2 == 4

\* non-null value pointers: (void *)1, (void *)2, (void *)3
Values == {1, 2, 3}

\* A burst of pairwise different keys, enough to half fill the largest map
\* whose capacity cannot be doubled: "aa", "ab", ..., "az", "ba", ...
BurstCount == 2 ^ (SIZE_BITS - 2)
BurstPtrs == Len(Content) + 1 .. Len(Content) + BurstCount
BurstString(p) ==
  << 97 + ((p - Len(Content) - 1) \div 26), 97 + ((p - Len(Content) - 1) % 26) >>

\* the string a key pointer names
StringAt(p) == IF p \in KeyPtrs THEN Content[p] ELSE BurstString(p)

(***************************************************************************)
(* 64-bit unsigned arithmetic on little-endian sequences of 8 bytes.       *)
(***************************************************************************)
\* 14695981039346656037 = 0xcbf29ce484222325
FNV_OFFSET_BASIS == <<37, 35, 34, 132, 228, 156, 242, 203>>
\* 1099511628211 = 0x00000100000001b3
FNV_PRIME == <<179, 1, 0, 0, 0, 1, 0, 0>>

RECURSIVE XorBits(_, _, _)
XorBits(x, y, n) ==
  IF n = 0 THEN 0
  ELSE ((x + y) % 2) + 2 * XorBits(x \div 2, y \div 2, n - 1)

\* hash ^= (uint64_t)c with c a signed char: a byte above 127 is sign
\* extended and flips the seven upper bytes too
U64XorByte_SignExtend(h, c) ==
  [i \in 1 .. 8 |-> IF i = 1 THEN XorBits(h[1], c, 8)
                    ELSE IF c >= 128 THEN 255 - h[i] ELSE h[i]]

\* hash ^= (uint64_t)(unsigned char)c : only the low byte changes
U64XorByte(h, c) == [h EXCEPT ![1] = XorBits(h[1], c, 8)]

\* column i (1..8) of the schoolbook product a * b
MulColumn(a, b, i) ==
  LET RECURSIVE Sum(_)
      Sum(j) == IF j = 0 THEN 0 ELSE a[j] * b[i - j + 1] + Sum(j - 1)
  IN  Sum(i)

RECURSIVE MulCarry(_, _, _, _, _)
MulCarry(a, b, i, carry, acc) ==
  IF i > 8 THEN acc
  ELSE LET t == MulColumn(a, b, i) + carry
       IN  MulCarry(a, b, i + 1, t \div 256, Append(acc, t % 256))

\* a * b modulo 2^64
U64Mul(a, b) == MulCarry(a, b, 1, 0, << >>)

RECURSIVE ModFrom(_, _, _, _)
ModFrom(h, c, i, r) ==
  IF i = 0 THEN r ELSE ModFrom(h, c, i - 1, (r * 256 + h[i]) % c)

\* h % c for a small positive c
U64Mod(h, c) == ModFrom(h, c, 8, 0)

(***************************************************************************)
(* ht__hash: FNV-1a over the bytes of the string up to the terminator.     *)
(***************************************************************************)
RECURSIVE ht__hash_loop(_, _, _)
ht__hash_loop(str, i, hash) ==
  IF i > Len(str) THEN hash
  ELSE ht__hash_loop(str, i + 1, U64Mul(U64XorByte(hash, str[i]), FNV_PRIME))

ht__hash(key) == ht__hash_loop(StringAt(key), 1, FNV_OFFSET_BASIS)

\* the hash of every key pointer, computed once
HashOf == [key \in KeyPtrs \cup BurstPtrs |-> ht__hash(key)]

\* (size_t)(hash % m->capacity)
IndexOf(key, capacity) == U64Mod(HashOf[key], capacity)

\* strcmp on the strings two key pointers name: 0 iff byte-for-byte equal
RECURSIVE strcmp_at(_, _, _)
strcmp_at(a, b, i) ==
  LET ca == IF i > Len(a) THEN 0 ELSE a[i]
      cb == IF i > Len(b) THEN 0 ELSE b[i]
  IN  IF ca # cb THEN (IF ca < cb THEN -1 ELSE 1)
      ELSE IF ca = 0 THEN 0
      ELSE strcmp_at(a, b, i + 1)

strcmp(p, q) == strcmp_at(StringAt(p), StringAt(q), 1)

(***************************************************************************)
(* The map: Map is [ht, capacity, items], ht a function from 0..capacity-1 *)
(* to ht_entry records [key, value].                                       *)
(***************************************************************************)
\* a slot as calloc leaves it
EmptyEntry == [key |-> NULL, value |-> NULL]

\* what a probe loop yields when it never reaches an exit
DIVERGES == -1

\* size_t arithmetic wraps at 2^SIZE_BITS
SizeWrap(n) == n % (2 ^ SIZE_BITS)

ht_length(map) == map.items

\* ht_new_map that rounds the capacity up to a power of two
ht_new_map_RoundUp(cap) ==
  LET RECURSIVE Pow2(_)
      Pow2(n) == IF n >= cap THEN n ELSE Pow2(2 * n)
      c == Pow2(1)
  IN  [ht |-> [i \in 0 .. c - 1 |-> EmptyEntry], capacity |-> c, items |-> 0]

ht_new_map(cap) ==
  [ht |-> [i \in 0 .. cap - 1 |-> EmptyEntry], capacity |-> cap, items |-> 0]

\* ht_entry_set that forgets m->items++ on the insert path
ht_entry_set_NoCount(map, index, key, value) ==
  LET RECURSIVE Loop(_, _)
      Loop(i, n) ==
        IF n > map.capacity + 1 THEN DIVERGES
        ELSE IF map.ht[i].value = NULL THEN i
        ELSE IF strcmp(map.ht[i].key, key) = 0 THEN i
        ELSE Loop(IF i + 1 >= map.capacity THEN 0 ELSE i + 1, n + 1)
      at == Loop(index, 1)
  IN  IF at = DIVERGES THEN [m |-> map, ret |-> DIVERGES, steps |-> map.capacity + 2]
      ELSE IF map.ht[at].value # NULL
        THEN [m |-> [map EXCEPT !.ht[at].value = value],
              ret |-> map.ht[at].key, steps |-> 0]
        ELSE [m |-> [map EXCEPT !.ht[at] = [key |-> key, value |-> value]],
              ret |-> key, steps |-> 0]

\* the while loop of ht_entry_set: the slot where it stops, whether it stopped
\* on an equal key, and the number of slots it looked at
RECURSIVE ht_entry_set_loop(_, _, _, _)
ht_entry_set_loop(map, index, key, n) ==
  IF n > map.capacity + 1 THEN [index |-> DIVERGES, hit |-> FALSE, steps |-> n]
  ELSE IF map.ht[index].value = NULL THEN [index |-> index, hit |-> FALSE, steps |-> n]
  ELSE IF strcmp(map.ht[index].key, key) = 0 THEN [index |-> index, hit |-> TRUE, steps |-> n]
  ELSE ht_entry_set_loop(map, IF index + 1 >= map.capacity THEN 0 ELSE index + 1, key, n + 1)

ht_entry_set(map, index, key, value) ==
  LET r == ht_entry_set_loop(map, index, key, 1)
  IN  IF r.index = DIVERGES THEN [m |-> map, ret |-> DIVERGES, steps |-> r.steps]
      ELSE IF r.hit
        THEN [m |-> [map EXCEPT !.ht[r.index].value = value],
              ret |-> map.ht[r.index].key, steps |-> r.steps]
        ELSE [m |-> [map EXCEPT !.ht[r.index] = [key |-> key, value |-> value],
                                !.items = SizeWrap(map.items + 1)],
              ret |-> key, steps |-> r.steps]

\* ht_expand that keeps the old capacity when the doubling overflows, and
\* goes on to reallocate
ht_expand_Clamp(map) ==
  LET dbl == SizeWrap(map.capacity * 2)
      new_cap == IF dbl < map.capacity THEN map.capacity ELSE dbl
  IN  [m |-> [ht |-> [i \in 0 .. new_cap - 1 |->
                        IF i < ht_length(map) /\ i < map.capacity
                           /\ map.ht[i].key # NULL
                        THEN map.ht[i] ELSE EmptyEntry],
              capacity |-> new_cap,
              items |-> map.items],
       rc |-> 0]

ht_expand(map) ==
  LET new_cap == SizeWrap(map.capacity * 2)
  IN  IF new_cap < map.capacity THEN [m |-> map, rc |-> -1]
      ELSE [m |-> [ht |-> [i \in 0 .. new_cap - 1 |->
                             IF i < ht_length(map) /\ i < map.capacity
                                /\ map.ht[i].key # NULL
                             THEN map.ht[i] ELSE EmptyEntry],
                   capacity |-> new_cap,
                   items |-> map.items],
            rc |-> 0]

\* ht_set that grows only when the key is not stored yet
ht_set_GrowOnInsert(map, key, value) ==
  IF key = NULL THEN [m |-> map, ret |-> NULL, steps |-> 0]
  ELSE LET stored == ht_entry_set_loop(map, IndexOf(key, map.capacity), key, 1).hit
           e == IF ~stored /\ ht_length(map) >= map.capacity \div 2
                THEN ht_expand(map) ELSE [m |-> map, rc |-> 0]
       IN  IF e.rc < 0 THEN [m |-> e.m, ret |-> NULL, steps |-> 0]
           ELSE ht_entry_set(e.m, IndexOf(key, e.m.capacity), key, value)

\* ht_set that never grows the map
ht_set_NoGrow(map, key, value) ==
  IF key = NULL THEN [m |-> map, ret |-> NULL, steps |-> 0]
  ELSE ht_entry_set(map, IndexOf(key, map.capacity), key, value)

\* ht_set that grows at items > capacity / 2 instead of >=
ht_set_GrowLate(map, key, value) ==
  IF key = NULL THEN [m |-> map, ret |-> NULL, steps |-> 0]
  ELSE LET e == IF ht_length(map) > map.capacity \div 2
                THEN ht_expand(map) ELSE [m |-> map, rc |-> 0]
       IN  IF e.rc < 0 THEN [m |-> e.m, ret |-> NULL, steps |-> 0]
           ELSE ht_entry_set(e.m, IndexOf(key, e.m.capacity), key, value)

\* ht_set that tests the key for NULL only after the growth step
ht_set_NullCheckLate(map, key, value) ==
  LET e == IF ht_length(map) >= map.capacity \div 2
           THEN ht_expand(map) ELSE [m |-> map, rc |-> 0]
  IN  IF e.rc < 0 \/ key = NULL THEN [m |-> e.m, ret |-> NULL, steps |-> 0]
      ELSE ht_entry_set(e.m, IndexOf(key, e.m.capacity), key, value)

ht_set(map, key, value) ==
  IF key = NULL THEN [m |-> map, ret |-> NULL, steps |-> 0]
  ELSE LET e == IF ht_length(map) >= map.capacity \div 2
                THEN ht_expand(map) ELSE [m |-> map, rc |-> 0]
       IN  IF e.rc < 0 THEN [m |-> e.m, ret |-> NULL, steps |-> 0]
           ELSE ht_entry_set(e.m, IndexOf(key, e.m.capacity), key, value)

\* the loop of ht_get without the strcmp: the first occupied slot answers
ht_get_loop_NoCompare(map, index, key, n) ==
  IF map.ht[index].value = NULL THEN [ret |-> NULL, steps |-> n]
  ELSE [ret |-> map.ht[index].value, steps |-> n]

RECURSIVE ht_get_loop(_, _, _, _)
ht_get_loop(map, index, key, n) ==
  IF n > map.capacity + 1 THEN [ret |-> DIVERGES, steps |-> n]
  ELSE IF map.ht[index].value = NULL THEN [ret |-> NULL, steps |-> n]
  ELSE IF strcmp(map.ht[index].key, key) = 0 THEN [ret |-> map.ht[index].value, steps |-> n]
  ELSE ht_get_loop(map, IF index + 1 >= map.capacity THEN 0 ELSE index + 1, key, n + 1)

ht_get_run(map, key) ==
  ht_get_loop(map, IndexOf(key, map.capacity), key, 1)

ht_get(map, key) == ht_get_run(map, key).ret

(***************************************************************************)
(* State.  m is the map under test, cap0 the capacity it was created with, *)
(* op the last function called on it and ret what that call returned, and  *)
(* hist the ht_set calls made on it so far with a key that is not NULL,    *)
(* oldest first, as <<key, value>> pairs.                                  *)
(***************************************************************************)
VARIABLES m, cap0, op, ret, hist

\* ht_destroy: the calls of free made so far, oldest first
VARIABLE freed

\* one call of ht__hash followed by the index computation: hash_in is the
\* string at key, hash_cap the capacity, hash_out the hash and the index
\* computed, << >> before the call
VARIABLES hash_in, hash_cap, hash_out

hashVars == <<hash_in, hash_cap, hash_out>>

htVars == <<m, cap0, op, ret, hist, freed, hashVars>>

\* ht__hash has not been called on its own
HashIdle ==
  /\ hash_in = << >>
  /\ hash_cap = 0
  /\ hash_out = << >>

(***************************************************************************)
(* State of the other libraries.                                           *)
(*   sentry.h: the global sentry_log_level, the levels of the lines        *)
(*     printed so far and the logging calls made so far, each as           *)
(*     <<level of the message, sentry_log_level at the call>>.  For the    *)
(*     threads: where each thread is in _sentry_log, the owner of          *)
(*     _sentry_mutex_internal and the pieces of the line being printed.    *)
(*   ticky.h: the ticky_stats object under test, the names passed to       *)
(*     ticky_bench so far and the indexes it wrote outside the array.      *)
(*   picky.h: the global t_main, what the test program has done so far     *)
(*     and what picky_end printed.                                         *)
(*   saul.h: two matrices, the last return code and the number of calls.   *)
(***************************************************************************)
VARIABLES sentry_log_level, log_out, log_calls

VARIABLES threads, _sentry_mutex_internal, term_line

threadVars == <<threads, _sentry_mutex_internal, term_line>>

sentryVars == <<sentry_log_level, log_out, log_calls, threadVars>>

VARIABLES stats, bench_names, oob_writes

tickyVars == <<stats, bench_names, oob_writes>>

VARIABLES t_main, picky_run, picky_report

pickyVars == <<t_main, picky_run, picky_report>>

VARIABLES mat1, mat2, saul_ret, saul_calls

saulVars == <<mat1, mat2, saul_ret, saul_calls>>

vars == <<htVars, sentryVars, tickyVars, pickyVars, saulVars>>

\* everything but the map and its call record
notHt == <<freed, hashVars, sentryVars, tickyVars, pickyVars, saulVars>>

SENTRY_DEBUG == 0
SENTRY_INFO == 1
SENTRY_WARN == 2
SENTRY_ERROR == 3

\* PTHREAD_MUTEX_INITIALIZER: the mutex is owned by no thread
UNLOCKED == 0

\* no thread has been started
ThreadsIdle ==
  /\ threads = << >>
  /\ _sentry_mutex_internal = UNLOCKED
  /\ term_line = << >>

\* no map has been created
HtIdle ==
  /\ m = NULL
  /\ cap0 = 0
  /\ op = "none"
  /\ ret = NULL
  /\ hist = << >>
  /\ freed = << >>
  /\ HashIdle

\* the statics of sentry.h as the program starts
SentryInit ==
  /\ sentry_log_level = SENTRY_DEBUG
  /\ log_out = << >>
  /\ log_calls = << >>
  /\ ThreadsIdle

\* no ticky_stats has been created
TickyIdle ==
  /\ stats = NULL
  /\ bench_names = << >>
  /\ oob_writes = << >>

\* the static t_main before the main wrapper runs
PickyIdle ==
  /\ t_main = NULL
  /\ picky_run = [pc |-> "none", tests |-> 0, held |-> 0, failed |-> 0,
                  pending |-> 0, paired |-> TRUE]
  /\ picky_report = << >>

\* no matrix has been created
SaulIdle ==
  /\ mat1 = NULL
  /\ mat2 = NULL
  /\ saul_ret = 0
  /\ saul_calls = << >>

\* the number of ht_set calls so far
nsets == Len(hist)

\* the strings passed to ht_set so far
SetStrings == {StringAt(hist[i][1]) : i \in 1 .. Len(hist)}

\* the value passed to the most recent ht_set for the string s
LastValue(s) ==
  LET n == CHOOSE i \in 1 .. Len(hist) :
             /\ StringAt(hist[i][1]) = s
             /\ \A j \in i + 1 .. Len(hist) : StringAt(hist[j][1]) # s
  IN  hist[n][2]

Init ==
  /\ cap0 \in 1 .. MaxInitCap
  /\ m = ht_new_map(cap0)
  /\ op = "ht_new_map"
  /\ ret = NULL
  /\ hist = << >>
  /\ freed = << >>
  /\ HashIdle
  /\ SentryInit
  /\ TickyIdle
  /\ PickyIdle
  /\ SaulIdle

DoSet(key, value) ==
  LET r == ht_set(m, key, value)
  IN  /\ m' = r.m
      /\ ret' = r.ret
      /\ op' = "ht_set"

\* ht_set(m, key, value) with a key and a value that are not NULL
SetValid ==
  /\ nsets < MaxOps
  /\ \E key \in KeyPtrs, value \in Values :
       /\ DoSet(key, value)
       /\ hist' = Append(hist, <<key, value>>)
  /\ UNCHANGED <<cap0, notHt>>

\* ht_set(m, key, NULL)
SetNullValue ==
  /\ nsets < MaxOps
  /\ \E key \in KeyPtrs :
       /\ DoSet(key, NULL)
       /\ hist' = Append(hist, <<key, NULL>>)
  /\ UNCHANGED <<cap0, notHt>>

\* ht_set(m, NULL, value)
SetNullKey ==
  /\ \E value \in Values \cup {NULL} : DoSet(NULL, value)
  /\ UNCHANGED <<cap0, hist, notHt>>

\* ht_get(m, key)
Get ==
  /\ \E key \in KeyPtrs : ret' = ht_get(m, key)
  /\ op' = "ht_get"
  /\ UNCHANGED <<m, cap0, hist, notHt>>

\* ht_length(m)
Length ==
  /\ ret' = ht_length(m)
  /\ op' = "ht_length"
  /\ UNCHANGED <<m, cap0, hist, notHt>>

Next == SetValid \/ SetNullValue \/ SetNullKey \/ Get \/ Length

\* every call the interface admits, NULL arguments included
Spec == Init /\ [][Next]_vars

NextContract == SetValid \/ Get \/ Length

\* callers that keep the documented preconditions: keys and values not NULL
SpecContract == Init /\ [][NextContract]_vars

(***************************************************************************)
(* A map created with the largest capacity that cannot be doubled: the     *)
(* caller inserts the burst of different keys one by one, and once the map *)
(* is half full goes on calling ht_set.                                    *)
(***************************************************************************)
OverflowCap == 2 ^ (SIZE_BITS - 1)

\* the value the caller stores under the n-th key of the burst
BurstValue(p) == 1 + (p % 3)

InitOverflow ==
  /\ cap0 = OverflowCap
  /\ m = ht_new_map(cap0)
  /\ op = "ht_new_map"
  /\ ret = NULL
  /\ hist = << >>
  /\ freed = << >>
  /\ HashIdle
  /\ SentryInit
  /\ TickyIdle
  /\ PickyIdle
  /\ SaulIdle

\* ht_set of the next key of the burst
BurstSet ==
  /\ nsets < BurstCount
  /\ ht_length(m) < m.capacity \div 2
  /\ LET key == Len(Content) + 1 + nsets
     IN  /\ DoSet(key, BurstValue(key))
         /\ hist' = Append(hist, <<key, BurstValue(key)>>)
  /\ UNCHANGED <<cap0, notHt>>

\* ht_set on the half full map, with a new key or one of the burst
OverflowSet ==
  /\ nsets < BurstCount + MaxOps
  /\ ht_length(m) >= m.capacity \div 2
  /\ \E key \in KeyPtrs \cup {Len(Content) + 1}, value \in Values :
       /\ DoSet(key, value)
       /\ hist' = Append(hist, <<key, value>>)
  /\ UNCHANGED <<cap0, notHt>>

\* ht_get(m, key) of a key of the burst
GetBurst ==
  /\ \E key \in BurstPtrs : ret' = ht_get(m, key)
  /\ op' = "ht_get"
  /\ UNCHANGED <<m, cap0, hist, notHt>>

NextOverflow == BurstSet \/ OverflowSet \/ Get \/ GetBurst \/ Length

SpecOverflow == InitOverflow /\ [][NextOverflow]_vars

(***************************************************************************)
(* Growth over the whole range of capacities: the map is new, of a small   *)
(* capacity or of the largest one; the map of the largest capacity is      *)
(* first half filled by the burst of different keys.                       *)
(***************************************************************************)
InitGrowth ==
  /\ cap0 \in (1 .. MaxInitCap) \cup {OverflowCap}
  /\ m = ht_new_map(cap0)
  /\ op = "ht_new_map"
  /\ ret = NULL
  /\ hist = << >>
  /\ freed = << >>
  /\ HashIdle
  /\ SentryInit
  /\ TickyIdle
  /\ PickyIdle
  /\ SaulIdle

\* ht_set of the next key of the burst on the map of the largest capacity
GrowthBurst ==
  /\ cap0 = OverflowCap
  /\ BurstSet

\* the ht_set calls made after the burst
GrowthSets == IF cap0 = OverflowCap THEN nsets - BurstCount ELSE nsets

\* ht_set(m, key, value) with a key that is not NULL
GrowthSet ==
  /\ GrowthSets \in 0 .. MaxOps - 1
  /\ \E key \in KeyPtrs, value \in {NULL, 1} :
       /\ DoSet(key, value)
       /\ hist' = Append(hist, <<key, value>>)
  /\ UNCHANGED <<cap0, notHt>>

NextGrowth == GrowthBurst \/ GrowthSet \/ SetNullKey \/ Get \/ Length

SpecGrowth == InitGrowth /\ [][NextGrowth]_vars

(***************************************************************************)
(* Updates: the caller sets and sets again "foo" and "ad", the key of the  *)
(* burst that stays on its probe path when the positions are kept.         *)
(***************************************************************************)
UpdateKeys == {FOO, Len(Content) + 4}

\* ht_set(m, key, value) with one of the two keys and a value not NULL
SetUpdate ==
  /\ nsets < MaxOps
  /\ \E key \in UpdateKeys, value \in Values :
       /\ DoSet(key, value)
       /\ hist' = Append(hist, <<key, value>>)
  /\ UNCHANGED <<cap0, notHt>>

NextUpdate == SetUpdate \/ Get \/ Length

SpecUpdate == Init /\ [][NextUpdate]_vars

(***************************************************************************)
(* ht__hash on its own: the key is any string of up to MaxKeyLen bytes     *)
(* taken from HashBytes, which has bytes above 127, and the index is       *)
(* computed for a capacity of 1 .. MaxInitCap.                             *)
(***************************************************************************)
MaxKeyLen == 3

\* 'a', 'o', and two bytes that are negative as a signed char
HashBytes == {97, 111, 128, 255}

RECURSIVE StringsUpTo(_)
StringsUpTo(n) ==
  IF n = 0 THEN {<< >>}
  ELSE StringsUpTo(n - 1)
         \cup {Append(str, c) : str \in {t \in StringsUpTo(n - 1) : Len(t) = n - 1},
                                c \in HashBytes}

InitHash ==
  /\ m = NULL
  /\ cap0 = 0
  /\ op = "none"
  /\ ret = NULL
  /\ hist = << >>
  /\ freed = << >>
  /\ hash_in \in StringsUpTo(MaxKeyLen)
  /\ hash_cap \in 1 .. MaxInitCap
  /\ hash_out = << >>
  /\ SentryInit
  /\ TickyIdle
  /\ PickyIdle
  /\ SaulIdle

\* uint64_t hash = ht__hash(key); size_t index = (size_t)(hash % m->capacity)
HashCall ==
  /\ hash_out = << >>
  /\ LET hash == ht__hash_loop(hash_in, 1, FNV_OFFSET_BASIS)
     IN  hash_out' = << hash, U64Mod(hash, hash_cap) >>
  /\ UNCHANGED <<hash_in, hash_cap, m, cap0, op, ret, hist, freed, sentryVars,
                 tickyVars, pickyVars, saulVars>>

NextHash == HashCall

SpecHash == InitHash /\ [][NextHash]_vars

(***************************************************************************)
(* Allocation failure: calloc returns NULL inside ht_expand.  The result   *)
(* is not tested, so the code goes on to use new_entries == NULL.  Storing *)
(* or loading through it is undefined: the process either traps on the     *)
(* access, or (no trap on page zero) stores are lost and loads read zero.  *)
(***************************************************************************)
\* the slot array a null pointer stands for
NullArray == [i \in {} |-> EmptyEntry]

\* the process still runs, the map is not destroyed and m->ht points to an
\* array
Alive == op \notin {"SIGSEGV", "ht_destroy"} /\ m.ht # NullArray

\* ht_expand(map) with calloc returning NULL: fault is TRUE when the copy
\* loop stores through new_entries
ht_expand_oom(map) ==
  LET new_cap == SizeWrap(map.capacity * 2)
  IN  IF new_cap < map.capacity
      THEN [m |-> map, rc |-> -1, fault |-> FALSE]
      ELSE IF \E i \in 0 .. ht_length(map) - 1 :
                 i < map.capacity /\ map.ht[i].key # NULL
           THEN [m |-> map, rc |-> 0, fault |-> TRUE]
           ELSE [m |-> [map EXCEPT !.capacity = new_cap, !.ht = NullArray],
                 rc |-> 0, fault |-> FALSE]

\* the outcomes of ht_set(map, key, value) when the calloc of ht_expand
\* returns NULL
ht_set_oom(map, key, value) ==
  IF key = NULL
  THEN {[m |-> map, ret |-> NULL, op |-> "ht_set"]}
  ELSE IF ~(ht_length(map) >= map.capacity \div 2)
  THEN {[m |-> ht_set(map, key, value).m,
         ret |-> ht_set(map, key, value).ret, op |-> "ht_set"]}
  ELSE LET e == ht_expand_oom(map)
       IN  IF e.rc < 0
           THEN {[m |-> e.m, ret |-> NULL, op |-> "ht_set"]}
           ELSE { \* the access through the null array traps
                  [m |-> e.m, ret |-> NULL, op |-> "SIGSEGV"],
                  \* no trap: the copies and the new entry are lost,
                  \* ht_entry_set sees an empty slot and counts the key
                  [m |-> [capacity |-> SizeWrap(map.capacity * 2),
                          items |-> SizeWrap(map.items + 1),
                          ht |-> NullArray],
                   ret |-> key, op |-> "ht_set"] }

LiveSet == Alive /\ SetValid
LiveGet == Alive /\ Get
LiveLength == Alive /\ Length

\* ht_set that needs to grow the map while calloc fails
SetAllocFail ==
  /\ Alive
  /\ ht_length(m) >= m.capacity \div 2
  /\ \E key \in KeyPtrs, value \in Values :
       \E o \in ht_set_oom(m, key, value) :
          /\ m' = o.m
          /\ ret' = o.ret
          /\ op' = o.op
  /\ UNCHANGED <<cap0, hist, notHt>>

NextAlloc == LiveSet \/ LiveGet \/ LiveLength \/ SetAllocFail

SpecAlloc == Init /\ [][NextAlloc]_vars

(***************************************************************************)
(* ht_destroy.  freed lists the calls of free with a non-null argument, in *)
(* order: the value and the key read from a slot, the slot array (named by *)
(* its capacity) and the map.                                              *)
(***************************************************************************)
RECURSIVE ht_destroy_loop(_, _)
ht_destroy_loop(map, i) ==
  IF ~(i < ht_length(map))
  THEN << >>
  ELSE (IF map.ht[i].value # NULL
        THEN << [kind |-> "value", slot |-> i, ptr |-> map.ht[i].value] >>
        ELSE << >>)
       \o (IF map.ht[i].key # NULL
           THEN << [kind |-> "key", slot |-> i, ptr |-> map.ht[i].key] >>
           ELSE << >>)
       \o ht_destroy_loop(map, i + 1)

ht_destroy(map) ==
  ht_destroy_loop(map, 0)
    \o << [kind |-> "array", slot |-> 0, ptr |-> map.capacity],
          [kind |-> "map", slot |-> 0, ptr |-> 0] >>

Destroy ==
  /\ Alive
  /\ freed' = ht_destroy(m)
  /\ op' = "ht_destroy"
  /\ UNCHANGED <<m, cap0, ret, hist, hashVars, sentryVars, tickyVars, pickyVars,
                 saulVars>>

NextDestroy == LiveSet \/ LiveGet \/ LiveLength \/ Destroy

SpecDestroy == Init /\ [][NextDestroy]_vars

(***************************************************************************)
(* sentry.h, one thread.  log_calls lists the calls made so far,           *)
(* log_out the lines printed: the level label and the number of the call   *)
(* whose message it carries.                                               *)
(***************************************************************************)
MaxLogs == 4

Levels == {SENTRY_DEBUG, SENTRY_INFO, SENTRY_WARN, SENTRY_ERROR}

_sentry_level_to_str(l) ==
  CASE l = SENTRY_INFO -> "INFO"
    [] l = SENTRY_DEBUG -> "DEBUG"
    [] l = SENTRY_ERROR -> "ERROR"
    [] l = SENTRY_WARN -> "WARN"
    [] OTHER -> ""

sentry_set_log_level(l) == l

\* _sentry_log that also drops a message of the current level
_sentry_log_DropEqual(level, cur, out, n) ==
  IF level <= cur
  THEN out
  ELSE Append(out, [label |-> _sentry_level_to_str(level), msg |-> n])

\* the output after _sentry_log(level, ...) as the n-th call, with the
\* level cur and the output out before it
_sentry_log(level, cur, out, n) ==
  IF level < cur
  THEN out
  ELSE Append(out, [label |-> _sentry_level_to_str(level), msg |-> n])

InitSentry ==
  /\ HtIdle
  /\ SentryInit
  /\ TickyIdle
  /\ PickyIdle
  /\ SaulIdle

SetLogLevel ==
  /\ Len(log_calls) < MaxLogs
  /\ \E l \in Levels :
       /\ sentry_log_level' = sentry_set_log_level(l)
       /\ log_calls' = Append(log_calls, [call |-> "set", arg |-> l])
  /\ UNCHANGED <<log_out, threadVars, htVars, tickyVars, pickyVars, saulVars>>

Log ==
  /\ Len(log_calls) < MaxLogs
  /\ \E level \in Levels :
       /\ log_out' = _sentry_log(level, sentry_log_level, log_out,
                                 Len(log_calls) + 1)
       /\ log_calls' = Append(log_calls, [call |-> "log", arg |-> level])
  /\ UNCHANGED <<sentry_log_level, threadVars, htVars, tickyVars, pickyVars,
                 saulVars>>

NextSentry == SetLogLevel \/ Log

SpecSentry == InitSentry /\ [][NextSentry]_vars

(***************************************************************************)
(* sentry.h, several threads calling the logging macros after the level    *)
(* was set.  threads[t] is where thread t is in _sentry_log:               *)
(*   pc "idle" outside the function, "test" at the level test, "lock" at   *)
(*   pthread_mutex_lock, "print" before the part-th of the five stdio      *)
(*   calls of a line (time stamp, file and line, level, message, newline), *)
(*   "unlock" at pthread_mutex_unlock;                                     *)
(*   level the level of the message, n the number of calls started.        *)
(* term_line holds the pieces written since the last line began, each      *)
(* with the thread that wrote it.  A stdio call is one step: stdout has    *)
(* its own lock.                                                           *)
(***************************************************************************)
NThreads == 2

MaxThreadLogs == 2

Threads == 1 .. NThreads

\* the printf, printf, printf, vprintf, printf calls of one line
LineParts == 5

\* the piece is appended to the output; a first piece after a finished line
\* starts a new line
printf(self, part, line) ==
  IF part = 1 /\ (line = << >> \/ line[Len(line)].part = LineParts)
  THEN << [thread |-> self, part |-> part] >>
  ELSE Append(line, [thread |-> self, part |-> part])

\* _sentry_log that prints without taking the mutex
_sentry_log_step_NoLock(self, th, cur, mutex, line) ==
  CASE th.pc = "test" ->
         [th |-> [th EXCEPT !.pc = IF th.level < cur THEN "idle" ELSE "lock"],
          mutex |-> mutex, line |-> line, blocked |-> FALSE]
    [] th.pc = "lock" ->
         [th |-> [th EXCEPT !.pc = "print", !.part = 1],
          mutex |-> mutex, line |-> line, blocked |-> FALSE]
    [] th.pc = "print" ->
         [th |-> IF th.part = LineParts
                 THEN [th EXCEPT !.pc = "unlock", !.part = 0]
                 ELSE [th EXCEPT !.part = th.part + 1],
          mutex |-> mutex, line |-> printf(self, th.part, line),
          blocked |-> FALSE]
    [] th.pc = "unlock" ->
         [th |-> [th EXCEPT !.pc = "idle"],
          mutex |-> mutex, line |-> line, blocked |-> FALSE]

\* one step of thread self inside _sentry_log, with the level cur, the owner
\* mutex of the mutex and the output line; blocked when the thread has to
\* wait in pthread_mutex_lock
_sentry_log_step(self, th, cur, mutex, line) ==
  CASE th.pc = "test" ->
         [th |-> [th EXCEPT !.pc = IF th.level < cur THEN "idle" ELSE "lock"],
          mutex |-> mutex, line |-> line, blocked |-> FALSE]
    [] th.pc = "lock" ->
         IF mutex = UNLOCKED
         THEN [th |-> [th EXCEPT !.pc = "print", !.part = 1],
               mutex |-> self, line |-> line, blocked |-> FALSE]
         ELSE [th |-> th, mutex |-> mutex, line |-> line, blocked |-> TRUE]
    [] th.pc = "print" ->
         [th |-> IF th.part = LineParts
                 THEN [th EXCEPT !.pc = "unlock", !.part = 0]
                 ELSE [th EXCEPT !.part = th.part + 1],
          mutex |-> mutex, line |-> printf(self, th.part, line),
          blocked |-> FALSE]
    [] th.pc = "unlock" ->
         [th |-> [th EXCEPT !.pc = "idle"],
          mutex |-> UNLOCKED, line |-> line, blocked |-> FALSE]

\* the levels the program sets before it starts the threads
StartLevels == {SENTRY_DEBUG, SENTRY_WARN}

\* the levels of the messages the threads log
ThreadLevels == {SENTRY_INFO, SENTRY_ERROR}

InitThreads ==
  /\ HtIdle
  /\ sentry_log_level \in StartLevels
  /\ log_out = << >>
  /\ log_calls = IF sentry_log_level = SENTRY_DEBUG
                 THEN << >>
                 ELSE << [call |-> "set", arg |-> sentry_log_level] >>
  /\ threads = [t \in Threads |-> [pc |-> "idle", level |-> SENTRY_DEBUG,
                                    part |-> 0, n |-> 0]]
  /\ _sentry_mutex_internal = UNLOCKED
  /\ term_line = << >>
  /\ TickyIdle
  /\ PickyIdle
  /\ SaulIdle

notThreads == <<sentry_log_level, log_out, log_calls, htVars, tickyVars,
                pickyVars, saulVars>>

\* thread t calls one of the logging macros
ThreadCall(t) ==
  /\ threads[t].pc = "idle"
  /\ threads[t].n < MaxThreadLogs
  /\ \E level \in ThreadLevels :
       threads' = [threads EXCEPT ![t] = [pc |-> "test", level |-> level,
                                          part |-> 0, n |-> @.n + 1]]
  /\ UNCHANGED <<_sentry_mutex_internal, term_line, notThreads>>

\* thread t runs its next step of _sentry_log
ThreadStep(t) ==
  /\ threads[t].pc # "idle"
  /\ LET r == _sentry_log_step(t, threads[t], sentry_log_level,
                               _sentry_mutex_internal, term_line)
     IN  /\ ~r.blocked
         /\ threads' = [threads EXCEPT ![t] = r.th]
         /\ _sentry_mutex_internal' = r.mutex
         /\ term_line' = r.line
  /\ UNCHANGED notThreads

NextThreads == \E t \in Threads : ThreadCall(t) \/ ThreadStep(t)

\* the scheduler lets every thread run that stays able to take a step
FairThreads == \A t \in Threads : WF_vars(ThreadStep(t))

SpecThreads == InitThreads /\ [][NextThreads]_vars /\ FairThreads

(***************************************************************************)
(* ticky.h.  stats is the ticky_stats object: the array of 100 result      *)
(* pointers, of which only the name is kept, and n_results.  bench_names   *)
(* lists the names passed to ticky_bench so far.  A store at an index      *)
(* outside the array is undefined: it either lands in the memory after the *)
(* array, or the process is stopped at the store; oob_writes lists these   *)
(* stores.                                                                 *)
(***************************************************************************)
MaxBench == 4

\* number of result pointers ticky_new_stats allocates
TICKY_CAPACITY == 100

\* content of a slot of the array that was never written
INDETERMINATE == "indeterminate"

BenchNames == {"Empty Function", "Fast Function", "Medium Function"}

ticky_new_stats ==
  [results |-> [i \in 0 .. TICKY_CAPACITY - 1 |-> INDETERMINATE],
   n_results |-> 0]

\* the outcomes of ticky_bench(s, message, fn, opts)
ticky_bench(s, message) ==
  IF s.n_results < TICKY_CAPACITY
  THEN {[stats |-> [results |-> [s.results EXCEPT ![s.n_results] = message],
                    n_results |-> s.n_results + 1],
         oob |-> << >>]}
  ELSE {[stats |-> [s EXCEPT !.n_results = @ + 1],
         oob |-> << [index |-> s.n_results, name |-> message, trap |-> FALSE] >>],
        [stats |-> s,
         oob |-> << [index |-> s.n_results, name |-> message, trap |-> TRUE] >>]}

\* the name of the k-th call of a run of calls made before the first state
PrefillName(k) ==
  CASE k % 3 = 0 -> "Empty Function"
    [] k % 3 = 1 -> "Fast Function"
    [] OTHER -> "Medium Function"

\* the stats object after k calls of ticky_bench, k <= TICKY_CAPACITY: call i
\* stored its result in results[i - 1] and n_results counts the calls
Prefill(k) ==
  [results |-> [i \in 0 .. TICKY_CAPACITY - 1 |->
                  IF i < k THEN PrefillName(i + 1) ELSE INDETERMINATE],
   n_results |-> k]

InitTicky ==
  /\ HtIdle
  /\ SentryInit
  /\ PickyIdle
  /\ SaulIdle
  /\ \E k \in {0, TICKY_CAPACITY - 2} :
       /\ stats = Prefill(k)
       /\ bench_names = [i \in 1 .. k |-> PrefillName(i)]
  /\ oob_writes = << >>

\* the calls made since the first state
BenchCalls ==
  IF Len(bench_names) >= TICKY_CAPACITY - 2
  THEN Len(bench_names) - (TICKY_CAPACITY - 2)
  ELSE Len(bench_names)

Bench ==
  /\ BenchCalls < MaxBench
  /\ \A k \in DOMAIN oob_writes : ~oob_writes[k].trap
  /\ \E message \in BenchNames :
       \E o \in ticky_bench(stats, message) :
          /\ stats' = o.stats
          /\ oob_writes' = oob_writes \o o.oob
          /\ bench_names' = Append(bench_names, message)
  /\ UNCHANGED <<htVars, sentryVars, pickyVars, saulVars>>

NextTicky == Bench

SpecTicky == InitTicky /\ [][NextTicky]_vars

(***************************************************************************)
(* picky.h.  t_main is the T object of the main wrapper.  picky__newT      *)
(* mallocs it and stores nothing in it, so the three counters start with   *)
(* indeterminate values.  picky_run follows the run of the user's tests:   *)
(* the picky_test calls made, the assertions whose condition held and      *)
(* failed, and whether a picky_test waits for its assertion.  picky_report *)
(* is what picky_end printed.                                              *)
(***************************************************************************)
MaxTests == 3
MaxGarbage == 1

\* the values an int read from uninitialised memory may have
Garbage == -MaxGarbage .. MaxGarbage

\* the objects picky__newT() may return
picky__newT ==
  [tests_total : Garbage, test_passed : Garbage, test_failed : Garbage]

picky_test(t) == [t EXCEPT !.tests_total = @ + 1]

picky_assert(t, condition) ==
  IF condition
  THEN [t EXCEPT !.test_passed = @ + 1]
  ELSE [t EXCEPT !.test_failed = @ + 1]

picky_end(t) == << t.tests_total, t.test_passed, t.test_failed >>

InitPicky ==
  /\ HtIdle
  /\ SentryInit
  /\ TickyIdle
  /\ SaulIdle
  /\ t_main \in picky__newT
  /\ picky_run = [pc |-> "run", tests |-> 0, held |-> 0, failed |-> 0,
                  pending |-> 0, paired |-> TRUE]
  /\ picky_report = << >>

PickyTest ==
  /\ picky_run.pc = "run"
  /\ picky_run.pending = 0
  /\ picky_run.tests < MaxTests
  /\ t_main' = picky_test(t_main)
  /\ picky_run' = [picky_run EXCEPT !.tests = @ + 1, !.pending = 1]
  /\ UNCHANGED <<picky_report, htVars, sentryVars, tickyVars, saulVars>>

PickyAssert ==
  /\ picky_run.pc = "run"
  /\ picky_run.pending = 1
  /\ \E condition \in BOOLEAN :
       /\ t_main' = picky_assert(t_main, condition)
       /\ picky_run' = IF condition
                       THEN [picky_run EXCEPT !.held = @ + 1, !.pending = 0]
                       ELSE [picky_run EXCEPT !.failed = @ + 1, !.pending = 0]
  /\ UNCHANGED <<picky_report, htVars, sentryVars, tickyVars, saulVars>>

PickyEnd ==
  /\ picky_run.pc = "run"
  /\ picky_run.pending = 0
  /\ picky_report' = picky_end(t_main)
  /\ picky_run' = [picky_run EXCEPT !.pc = "ended"]
  /\ UNCHANGED <<t_main, htVars, sentryVars, tickyVars, saulVars>>

NextPicky == PickyTest \/ PickyAssert \/ PickyEnd

SpecPicky == InitPicky /\ [][NextPicky]_vars

(***************************************************************************)
(* saul.h.  A Matrix is the record of rows, cols and items, items[i][j]    *)
(* being a float.  A float is written as its number of halves (9 is 4.5f), *)
(* an int as itself.  saul_ret is the value the last call returned.        *)
(* saul_calls lists the last saul_matrix_set_value, if any, and the calls  *)
(* made after it, each with its number n and the matrix m1 it was given.   *)
(*                                                                         *)
(* Converting a float outside the range of int to int, and overflowing an  *)
(* int sum, are undefined: what happens depends on the build, which is     *)
(* the pair of conv ("indefinite": INT_MIN, as cvttss2si gives, or         *)
(* "saturate": the nearest bound) and ovf ("wrap" or "trap").              *)
(***************************************************************************)
MaxDim == 2
MaxSaulCalls == 2

\* widths of int and of the significand of float
INT_BITS == 6
FLT_MANT_DIG == 4

INT_MAX == 2 ^ (INT_BITS - 1) - 1
INT_MIN == -(2 ^ (INT_BITS - 1))

Builds == [conv : {"indefinite", "saturate"}, ovf : {"wrap", "trap"}]

\* the floats callers store: 1.0f, 4.5f, the first power of two whose
\* successor is not a float, and the first power of two above INT_MAX
FloatInputs == {2, 9, 2 * 2 ^ FLT_MANT_DIG, 2 * 2 ^ (INT_BITS - 1)}

saul_new_matrix(rows, cols) ==
  [rows |-> rows, cols |-> cols,
   items |-> [i \in 0 .. rows - 1 |-> [j \in 0 .. cols - 1 |-> 0]]]

\* saul_check_boundaries that accepts j == cols and i == rows
saul_check_boundaries_OffByOne(mat, i, j) ==
  IF mat.cols < j \/ i < 0 THEN -1
  ELSE IF mat.rows < i \/ j < 0 THEN -1
  ELSE 1

saul_check_boundaries(mat, i, j) ==
  IF mat.cols <= j \/ i < 0 THEN -1
  ELSE IF mat.rows <= i \/ j < 0 THEN -1
  ELSE 1

\* the matrix and the return value after saul_matrix_set_value
saul_matrix_set_value(mat, i, j, value) ==
  IF saul_check_boundaries(mat, i, j) < 0
  THEN [m |-> mat, ret |-> -1]
  ELSE [m |-> [mat EXCEPT !.items[i][j] = value], ret |-> 0]

\* -1.0f is -2 halves
saul_get_value_by_index(mat, i, j) ==
  IF saul_check_boundaries(mat, i, j) < 0
  THEN -2
  ELSE mat.items[i][j]

\* float to int: the fraction is dropped; a value outside the range of int
\* is undefined
FloatToInt(h, build) ==
  LET t == IF h >= 0 THEN h \div 2 ELSE -((-h) \div 2)
  IN  IF INT_MIN <= t /\ t <= INT_MAX THEN t
      ELSE IF build.conv = "indefinite" THEN INT_MIN
      ELSE IF t > 0 THEN INT_MAX ELSE INT_MIN

\* not an int: what saul_ret holds when the process was stopped by a trap
SAUL_TRAPPED == INT_MIN - 1

\* not an int: stands for a trap on signed overflow
TRAP == INT_MAX + 1

\* the int result of a + b or a - b whose exact value is n
IntResult(n, build) ==
  IF INT_MIN <= n /\ n <= INT_MAX THEN n
  ELSE IF build.ovf = "wrap" THEN ((n - INT_MIN) % 2 ^ INT_BITS) + INT_MIN
  ELSE TRAP

\* the spacing of the floats around the magnitude a
RECURSIVE Ulp(_, _)
Ulp(a, u) == IF a < 2 ^ FLT_MANT_DIG * u THEN u ELSE Ulp(a, 2 * u)

\* int to float: round to nearest, ties to even
IntToFloat(n) ==
  LET a == IF n >= 0 THEN n ELSE -n
      u == Ulp(a, 1)
      q == a \div u
      r == a % u
      rounded == IF 2 * r < u THEN q
                 ELSE IF 2 * r > u THEN q + 1
                 ELSE IF q % 2 = 0 THEN q ELSE q + 1
  IN  (IF n >= 0 THEN 1 ELSE -1) * rounded * u * 2

\* the matrix m1 after the callback on element [i][j], and whether the
\* process trapped in it
saul_private_add_each(m1, m2, i, j, build) ==
  LET a == FloatToInt(saul_get_value_by_index(m1, i, j), build)
      b == FloatToInt(saul_get_value_by_index(m2, i, j), build)
      n == IntResult(a + b, build)
  IN  IF n = TRAP
      THEN [m |-> m1, trap |-> TRUE]
      ELSE [m |-> saul_matrix_set_value(m1, i, j, IntToFloat(n)).m,
            trap |-> FALSE]

saul_private_sub_each(m1, m2, i, j, build) ==
  LET a == FloatToInt(saul_get_value_by_index(m1, i, j), build)
      b == FloatToInt(saul_get_value_by_index(m2, i, j), build)
      n == IntResult(a - b, build)
  IN  IF n = TRAP
      THEN [m |-> m1, trap |-> TRUE]
      ELSE [m |-> saul_matrix_set_value(m1, i, j, IntToFloat(n)).m,
            trap |-> FALSE]

\* the loops of saul_matrix_for_each_double from element number k on
RECURSIVE for_each_double_loop(_, _, _, _, _)
for_each_double_loop(o, m2, cb, k, build) ==
  IF o.trap \/ k >= m2.rows * m2.cols
  THEN o
  ELSE for_each_double_loop(
         IF cb = "add"
         THEN saul_private_add_each(o.m, m2, k \div m2.cols, k % m2.cols, build)
         ELSE saul_private_sub_each(o.m, m2, k \div m2.cols, k % m2.cols, build),
         m2, cb, k + 1, build)

\* m1 and the return value after saul_matrix_for_each_double(m1, m2, cb)
saul_matrix_for_each_double(m1, m2, cb, build) ==
  IF m1.rows # m2.rows \/ m1.cols # m2.cols
  THEN [m |-> m1, ret |-> -1]
  ELSE LET o == for_each_double_loop([m |-> m1, trap |-> FALSE], m2, cb, 0, build)
       IN  [m |-> o.m, ret |-> IF o.trap THEN SAUL_TRAPPED ELSE 0]

\* m1 and the return value after saul_matrix_add(m1, m2)
saul_matrix_add(m1, m2, build) ==
  IF m1.rows # m2.rows \/ m1.cols # m2.cols
  THEN [m |-> m1, ret |-> -1]
  ELSE LET o == saul_matrix_for_each_double(m1, m2, "add", build)
       IN  [m |-> o.m, ret |-> IF o.ret = SAUL_TRAPPED THEN SAUL_TRAPPED ELSE 0]

\* m1 and the return value after saul_matrix_sub(m1, m2)
saul_matrix_sub(m1, m2, build) ==
  IF m1.rows # m2.rows \/ m1.cols # m2.cols
  THEN [m |-> m1, ret |-> -1]
  ELSE LET o == saul_matrix_for_each_double(m1, m2, "sub", build)
       IN  [m |-> o.m, ret |-> IF o.ret = SAUL_TRAPPED THEN SAUL_TRAPPED ELSE 0]

\* saul_matrix_for_each with the callback of the tests that stores one
\* value in every element
fill_with(mat, value) ==
  [mat EXCEPT !.items = [i \in 0 .. mat.rows - 1 |->
                           [j \in 0 .. mat.cols - 1 |-> value]]]

\* the number of calls made
saul_ncalls == IF saul_calls = << >> THEN 0 ELSE saul_calls[Len(saul_calls)].n

\* a fresh matrix on which saul_matrix_set_value is called
InitSaul ==
  /\ HtIdle
  /\ SentryInit
  /\ TickyIdle
  /\ PickyIdle
  /\ \E rows, cols \in 1 .. MaxDim : mat1 = saul_new_matrix(rows, cols)
  /\ mat2 = NULL
  /\ saul_ret = 0
  /\ saul_calls = << >>

SaulSetValue ==
  /\ saul_ncalls < MaxSaulCalls
  /\ saul_ret \in {0, -1}
  /\ \E i, j \in -1 .. MaxDim, value \in FloatInputs :
       /\ mat1' = saul_matrix_set_value(mat1, i, j, value).m
       /\ saul_ret' = saul_matrix_set_value(mat1, i, j, value).ret
       /\ saul_calls' = << [fn |-> "saul_matrix_set_value", n |-> saul_ncalls + 1,
                            i |-> i, j |-> j, value |-> value,
                            before |-> mat1] >>
  /\ UNCHANGED <<mat2, htVars, sentryVars, tickyVars, pickyVars>>

NextSaul == SaulSetValue

SpecSaul == InitSaul /\ [][NextSaul]_vars

\* two matrices filled by the caller, of equal dimensions or not, on which
\* saul_matrix_add and saul_matrix_sub are called
InitSaulOps ==
  /\ HtIdle
  /\ SentryInit
  /\ TickyIdle
  /\ PickyIdle
  /\ \E rows, cols \in 1 .. MaxDim :
       /\ \E x, y \in FloatInputs \cup {0} :
            mat1 = saul_matrix_set_value(
                     fill_with(saul_new_matrix(rows, cols), x), 0, 0, y).m
       /\ \E value \in FloatInputs :
            \/ mat2 = fill_with(saul_new_matrix(rows, cols), value)
            \/ mat2 = fill_with(saul_new_matrix(cols + 1, rows), value)
  /\ saul_ret = 0
  /\ saul_calls = << >>

SaulAdd ==
  /\ saul_ncalls < MaxSaulCalls
  /\ saul_ret \in {0, -1}
  /\ \E build \in Builds :
       /\ mat1' = saul_matrix_add(mat1, mat2, build).m
       /\ saul_ret' = saul_matrix_add(mat1, mat2, build).ret
  /\ saul_calls' = Append(saul_calls,
        [fn |-> "saul_matrix_add", n |-> saul_ncalls + 1, i |-> 0, j |-> 0,
         value |-> 0, before |-> mat1])
  /\ UNCHANGED <<mat2, htVars, sentryVars, tickyVars, pickyVars>>

SaulSub ==
  /\ saul_ncalls < MaxSaulCalls
  /\ saul_ret \in {0, -1}
  /\ \E build \in Builds :
       /\ mat1' = saul_matrix_sub(mat1, mat2, build).m
       /\ saul_ret' = saul_matrix_sub(mat1, mat2, build).ret
  /\ saul_calls' = Append(saul_calls,
        [fn |-> "saul_matrix_sub", n |-> saul_ncalls + 1, i |-> 0, j |-> 0,
         value |-> 0, before |-> mat1])
  /\ UNCHANGED <<mat2, htVars, sentryVars, tickyVars, pickyVars>>

NextSaulOps == SaulAdd \/ SaulSub

SpecSaulOps == InitSaulOps /\ [][NextSaulOps]_vars

(***************************************************************************)
(* Properties of ht.h                                                      *)
(***************************************************************************)
\* the key pointers whose string has been passed to ht_set
WasSet(p) == Content[p] \in SetStrings

\* the map has been grown at least once
Expanded == m.capacity > cap0

\* C1: after any sequence of ht_set calls with keys and values that are not
\* NULL, ht_get of every string that was set returns the value of the most
\* recent ht_set for it.
C1_GetReturnsLastSet ==
  \A p \in KeyPtrs : WasSet(p) => ht_get(m, p) = LastValue(Content[p])

\* C2: when ht_expand runs (items >= capacity / 2), every key that ht_get
\* finds before the expansion is found with the same value after it.
C2_ExpandPreservesMapping ==
  ht_length(m) >= m.capacity \div 2 =>
    \A p \in KeyPtrs :
      ht_get(m, p) # NULL => ht_get(ht_expand(m).m, p) = ht_get(m, p)

\* C3: ht_set of a key that is stored, with a value that is not NULL, leaves
\* ht_length unchanged and makes ht_get return the new value.
C3_UpdateKeepsLength ==
  \A p \in KeyPtrs, v \in Values :
    ht_get(m, p) # NULL =>
      LET after == ht_set(m, p, v).m
      IN  /\ ht_length(after) = ht_length(m)
          /\ ht_get(after, p) = v

\* the ht_set calls so far all passed different strings
AllDistinct == Cardinality(SetStrings) = nsets

\* C4: after N ht_set calls with N pairwise different strings on a fresh map,
\* ht_length is N.
C4_LengthCountsDistinctKeys ==
  AllDistinct => ht_length(m) = nsets

\* three different strings set, across at least one expansion
C4_Witness ==
  /\ AllDistinct
  /\ nsets = 3
  /\ Expanded
  /\ ht_length(m) = 3

\* C5: after every ht_set that returns success, items <= capacity / 2.
C5_LoadFactor ==
  (op = "ht_set" /\ ret # NULL) => m.items <= m.capacity \div 2

\* a successful ht_set on a map created with capacity 1 that left the map
\* exactly half full after growing
C5_Witness ==
  /\ op = "ht_set"
  /\ ret # NULL
  /\ cap0 = 1
  /\ Expanded
  /\ m.items = m.capacity \div 2

\* C6: ht_get of a string that was never passed to ht_set returns NULL.
C6_NeverSetNotFound ==
  \A p \in KeyPtrs : ~WasSet(p) => ht_get(m, p) = NULL

\* a never-set key whose probe starts on an occupied slot of a grown map
C6_Witness ==
  /\ Expanded
  /\ \E p \in KeyPtrs :
       /\ ~WasSet(p)
       /\ m.ht[IndexOf(p, m.capacity)].value # NULL

\* C7: on a map created with capacity 1 or 2, after two ht_set calls with
\* different strings whose hashes collide modulo that capacity, ht_get finds
\* both with their values.
C7_CollidingKeysRetrievable ==
  ( /\ cap0 \in {1, 2}
    /\ nsets = 2
    /\ hist[1][2] # NULL
    /\ hist[2][2] # NULL
    /\ Content[hist[1][1]] # Content[hist[2][1]]
    /\ IndexOf(hist[1][1], cap0) = IndexOf(hist[2][1], cap0) )
  => /\ ht_get(m, hist[1][1]) = hist[1][2]
     /\ ht_get(m, hist[2][1]) = hist[2][2]

\* C8: after create(4); set("foo", 2); set("bar", 1); set("bar", 3) the
\* length is 2, get("bar") is 3, get("foo") is 2 and the capacity is 8.
C8_ConcreteScenario ==
  (cap0 = 4 /\ hist = << <<FOO, 2>>, <<BAR, 1>>, <<BAR, 3>> >>)
  => /\ ht_length(m) = 2
     /\ ht_get(m, BAR) = 3
     /\ ht_get(m, FOO) = 2
     /\ m.capacity = 8

\* C9: ht_set with a NULL value returns NULL and leaves capacity, items and
\* every slot unchanged.
C9_NullValueRejected ==
  [][SetNullValue => (m' = m /\ ret' = NULL)]_vars

\* C10: ht_set with a NULL key returns NULL and leaves capacity, items and
\* every slot unchanged.
C10_NullKeyRejected ==
  [][SetNullKey => (m' = m /\ ret' = NULL)]_vars

\* ht_set has returned NULL on a map that was due to grow
C10_Witness ==
  /\ op = "ht_set"
  /\ ret = NULL
  /\ nsets > 0
  /\ ht_length(m) >= m.capacity \div 2

\* C14: ht_new_map(c) yields a map of capacity exactly c with items 0 and c
\* empty slots, on which ht_get of any key returns NULL.
C14_NewMapExact ==
  op = "ht_new_map" =>
    /\ m.capacity = cap0
    /\ m.items = 0
    /\ DOMAIN m.ht = 0 .. cap0 - 1
    /\ \A i \in DOMAIN m.ht : m.ht[i].key = NULL /\ m.ht[i].value = NULL
    /\ \A p \in KeyPtrs : ht_get(m, p) = NULL

\* a fresh map whose capacity is not a power of two
C14_Witness ==
  /\ op = "ht_new_map"
  /\ cap0 = 3
  /\ m.capacity = 3

\* the slots that hold an entry
Occupied(map) == {i \in DOMAIN map.ht : map.ht[i].value # NULL}

\* C20: no string is the key of two occupied slots.
C20_NoDuplicateKeys ==
  \A i, j \in Occupied(m) :
    i # j => strcmp(m.ht[i].key, m.ht[j].key) # 0

\* the burst keys inserted so far
BurstDone == {p \in BurstPtrs : p <= Len(Content) + ht_length(m)}

\* C11: when capacity * 2 overflows size_t, ht_expand returns -1, ht_set
\* returns NULL and capacity, items and the slots are unchanged, so that
\* every key inserted before is still found.
C11_OverflowFails ==
  [][(OverflowSet /\ m.capacity * 2 >= 2 ^ SIZE_BITS)
       => /\ ht_expand(m).rc = -1
          /\ ret' = NULL
          /\ m' = m
          /\ \A p \in BurstDone : ht_get(m', p) = BurstValue(p)]_vars

\* ht_set has failed on a half full map whose capacity cannot be doubled
C11_Witness ==
  /\ op = "ht_set"
  /\ ret = NULL
  /\ m.capacity = OverflowCap
  /\ ht_length(m) = OverflowCap \div 2
  /\ nsets > BurstCount
  /\ hist[nsets][1] # NULL

\* C12: a ht_set whose doubled slot array cannot be allocated reports
\* failure and leaves capacity, items and every slot as they were.
C12_AllocFailureAtomic ==
  [][SetAllocFail => (op' = "ht_set" /\ ret' = NULL /\ m' = m)]_vars

\* how many times free was called for the object o
TimesFreed(o) == Cardinality({k \in DOMAIN freed : freed[k] = o})

\* the capacities of the slot arrays calloc returned for the map
RECURSIVE ArraysFrom(_)
ArraysFrom(c) == IF c >= m.capacity THEN {m.capacity} ELSE {c} \cup ArraysFrom(2 * c)

\* C13: ht_destroy on a live map frees the key and the value of every
\* occupied slot exactly once, then the slot array and the map, and leaves
\* no slot array, key or value of the map unreleased.
C13_DestroyReleasesAll ==
  op = "ht_destroy" =>
    /\ \A i \in Occupied(m) :
         /\ TimesFreed([kind |-> "key", slot |-> i, ptr |-> m.ht[i].key]) = 1
         /\ TimesFreed([kind |-> "value", slot |-> i, ptr |-> m.ht[i].value]) = 1
    /\ \A c \in ArraysFrom(cap0) :
         TimesFreed([kind |-> "array", slot |-> 0, ptr |-> c]) = 1
    /\ Len(freed) >= 2
    /\ freed[Len(freed) - 1].kind = "array"
    /\ freed[Len(freed)].kind = "map"

\* C21: items equals the number of occupied slots and is at most capacity,
\* in every reachable state, expansions included.
C21_ItemsCountsOccupied ==
  /\ m.items = Cardinality(Occupied(m))
  /\ m.items <= m.capacity

\* the slots on the cyclic forward path from slot h to slot s
ProbePath(h, s, capacity) ==
  IF h <= s THEN h .. s ELSE (h .. capacity - 1) \cup (0 .. s)

\* C22: every slot on the probe path from hash(k) mod capacity to the slot
\* that holds k is occupied, also after an expansion (entries are rehashed
\* to the new capacity).
C22_ProbePathOccupied ==
  \A s \in Occupied(m) :
    ProbePath(IndexOf(m.ht[s].key, m.capacity), s, m.capacity) \subseteq Occupied(m)

\* C23: in every reachable state, NULL values and never-set maps included,
\* some slot is empty, and the probe loops of ht_get and ht_set stop after
\* looking at no more than capacity slots, for every key.
C23_ProbesTerminate ==
  /\ m.capacity > 0
  /\ \E i \in DOMAIN m.ht : m.ht[i].value = NULL
  /\ \A p \in KeyPtrs :
       /\ ht_get_run(m, p).ret # DIVERGES
       /\ ht_get_run(m, p).steps <= m.capacity
       /\ ht_set(m, p, 1).ret # DIVERGES
       /\ ht_set(m, p, 1).steps <= ht_set(m, p, 1).m.capacity

\* a ht_get had to pass an occupied slot that holds another key, in a map
\* that also holds a key stored with a NULL value
C23_Witness ==
  /\ op = "ht_get"
  /\ \E p \in KeyPtrs : ht_get_run(m, p).steps >= 2
  /\ \E i \in DOMAIN m.ht : m.ht[i].key # NULL /\ m.ht[i].value = NULL

\* the capacity cannot be doubled in size_t
DoublingOverflows(map) == map.capacity * 2 >= 2 ^ SIZE_BITS

\* C24 as stated: ht_set with a non-NULL key doubles the capacity iff
\* items >= capacity / 2 at entry, and nothing else changes the capacity.
C24_GrowthPolicy ==
  [][/\ (GrowthBurst \/ GrowthSet) =>
          m'.capacity = IF m.items >= m.capacity \div 2
                        THEN 2 * m.capacity ELSE m.capacity
     /\ (SetNullKey \/ Get \/ Length) => m'.capacity = m.capacity]_vars

\* C24 amended: ht_set with a non-NULL key doubles the capacity exactly
\* once, before probing, iff items >= capacity / 2 at entry and the doubled
\* capacity fits size_t, also when the key is already stored; when it does
\* not fit the call returns NULL and changes nothing; no other call changes
\* the capacity.
C24_GrowthPolicyAmended ==
  [][/\ (GrowthBurst \/ GrowthSet) =>
          LET key == hist'[Len(hist')][1]
              grows == m.items >= m.capacity \div 2 /\ ~DoublingOverflows(m)
              fails == m.items >= m.capacity \div 2 /\ DoublingOverflows(m)
          IN  /\ m'.capacity = IF grows THEN 2 * m.capacity ELSE m.capacity
              /\ fails => (ret' = NULL /\ m' = m)
              /\ ~fails =>
                   \E s \in DOMAIN m'.ht :
                     /\ m'.ht[s].key # NULL
                     /\ strcmp(m'.ht[s].key, key) = 0
                     /\ \A i \in ProbePath(IndexOf(key, m'.capacity), s,
                                           m'.capacity) \ {s} :
                          m'.ht[i].value # NULL
     /\ (SetNullKey \/ Get \/ Length) => m'.capacity = m.capacity]_vars

\* a ht_set of a key that was already stored has doubled the capacity
C24_Witness ==
  /\ op = "ht_set"
  /\ cap0 = 1
  /\ m.capacity = 4
  /\ nsets = 2
  /\ StringAt(hist[1][1]) = StringAt(hist[2][1])
  /\ hist[1][2] # NULL

\* the map ht_set probes: map itself, or map grown when it is half full
Probed(map) ==
  IF ht_length(map) >= map.capacity \div 2 THEN ht_expand(map).m ELSE map

\* the slot where the probe of ht_set(map, key, ...) stops on an equal key,
\* DIVERGES when it stops on an empty slot
UpdateSlot(map, key) ==
  LET r == ht_entry_set_loop(Probed(map), IndexOf(key, Probed(map).capacity), key, 1)
  IN  IF r.hit THEN r.index ELSE DIVERGES

\* C25: a ht_set whose probe finds a slot holding an equal key overwrites
\* only that slot's value, keeps and returns the key stored there, and
\* leaves items and the key and value of every other slot unchanged.
C25_UpdateFrame ==
  [][SetUpdate =>
       LET key == hist'[Len(hist')][1]
           value == hist'[Len(hist')][2]
           s == UpdateSlot(m, key)
       IN  s # DIVERGES =>
             /\ ret' = m.ht[s].key
             /\ m'.ht[s].key = m.ht[s].key
             /\ m'.ht[s].value = value
             /\ m'.items = m.items
             /\ \A i \in DOMAIN m.ht : i # s => m'.ht[i] = m.ht[i]
             /\ \A i \in DOMAIN m'.ht \ DOMAIN m.ht : m'.ht[i] = EmptyEntry]_vars

(***************************************************************************)
(* Reference FNV-1a, on 64-bit words written as sequences of 64 bits,      *)
(* lowest first.  The multiplication by the prime 2^40 + 2^8 + 0xb3 is a   *)
(* sum of shifts.                                                          *)
(***************************************************************************)
\* the bits of a word given as 8 bytes, lowest first
RefBits(h) == [k \in 1 .. 64 |-> (h[((k - 1) \div 8) + 1] \div 2 ^ ((k - 1) % 8)) % 2]

\* the bits of a word given as 16 hexadecimal digits, highest first
RefHex(d) == [k \in 1 .. 64 |-> (d[16 - ((k - 1) \div 4)] \div 2 ^ ((k - 1) % 4)) % 2]

RefXorByte(a, c) ==
  [k \in 1 .. 64 |-> IF k <= 8 THEN (a[k] + ((c \div 2 ^ (k - 1)) % 2)) % 2 ELSE a[k]]

RefShl(a, n) == [k \in 1 .. 64 |-> IF k <= n THEN 0 ELSE a[k - n]]

\* the carry into bit k of a + b: some lower position generates a carry and
\* every position between propagates it
RefCarry(a, b, k) ==
  \E j \in 1 .. k - 1 :
    /\ a[j] + b[j] = 2
    /\ \A i \in j + 1 .. k - 1 : a[i] + b[i] = 1

\* a + b modulo 2^64
RefAdd(a, b) ==
  SubSeq([k \in 1 .. 64 |-> (a[k] + b[k] + IF RefCarry(a, b, k) THEN 1 ELSE 0) % 2],
         1, 64)

\* a * 0x00000100000001b3 modulo 2^64
RefMulPrime(a) ==
  RefAdd(RefShl(a, 40),
    RefAdd(RefShl(a, 8),
      RefAdd(RefShl(a, 7),
        RefAdd(RefShl(a, 5),
          RefAdd(RefShl(a, 4),
            RefAdd(RefShl(a, 1), a))))))

RECURSIVE RefFNV1aFrom(_, _, _)
RefFNV1aFrom(str, i, acc) ==
  IF i > Len(str) THEN acc
  ELSE RefFNV1aFrom(str, i + 1, RefMulPrime(RefXorByte(acc, str[i])))

\* FNV-1a of the bytes of str, from the offset basis 0xcbf29ce484222325
RefFNV1a(str) ==
  RefFNV1aFrom(str, 1, RefHex(<<12, 11, 15, 2, 9, 12, 14, 4, 8, 4, 2, 2, 2, 3, 2, 5>>))

RECURSIVE RefPow2Mod(_, _)
\* 2^n modulo c, by repeated squaring
RefPow2Mod(n, c) ==
  IF n = 0 THEN 1 % c
  ELSE LET r == RefPow2Mod(n \div 2, c)
       IN  (r * r * (IF n % 2 = 1 THEN 2 ELSE 1)) % c

RECURSIVE RefModRange(_, _, _, _)
\* the number written by bits lo .. hi of a, modulo c, by halving the range
RefModRange(a, c, lo, hi) ==
  IF lo = hi THEN a[lo] % c
  ELSE LET mid == (lo + hi) \div 2
       IN  (RefModRange(a, c, lo, mid)
              + RefPow2Mod(mid + 1 - lo, c) * RefModRange(a, c, mid + 1, hi)) % c

\* a modulo c
RefMod(a, c) == RefModRange(a, c, 1, 64)

\* C26: ht__hash is FNV-1a over the bytes before the terminator: from the
\* 64-bit offset basis, each byte XORed in as an unsigned value and the
\* accumulator multiplied by the FNV prime modulo 2^64; it depends on the
\* bytes alone, and the slot index is the hash modulo the capacity.
C26_HashIsFNV1a ==
  /\ RefBits(FNV_PRIME) = RefHex(<<0, 0, 0, 0, 0, 1, 0, 0, 0, 0, 0, 0, 0, 1, 11, 3>>)
  /\ HashOf[FOO] = HashOf[FOO2]
  /\ hash_out # << >> =>
       LET ref == RefFNV1a(hash_in) IN
       /\ RefBits(hash_out[1]) = ref
       /\ hash_out[2] = RefMod(ref, hash_cap)
       /\ hash_in = << >> =>
            RefBits(hash_out[1])
              = RefHex(<<12, 11, 15, 2, 9, 12, 14, 4, 8, 4, 2, 2, 2, 3, 2, 5>>)
       /\ hash_in = << 97 >> =>
            RefBits(hash_out[1])
              = RefHex(<<10, 15, 6, 3, 13, 12, 4, 12, 8, 6, 0, 1, 14, 12, 8, 12>>)

\* the hash of a string of three bytes, one of them above 127, was computed
C26_Witness ==
  /\ hash_out # << >>
  /\ Len(hash_in) = 3
  /\ \E i \in DOMAIN hash_in : hash_in[i] = 255
  /\ hash_cap = 3

(***************************************************************************)
(* Properties of sentry.h                                                  *)
(***************************************************************************)
\* the argument of the last sentry_set_log_level before call n, SENTRY_DEBUG
\* when there is none
LevelAt(n) ==
  LET sets == {k \in 1 .. n - 1 : log_calls[k].call = "set"}
  IN  IF sets = {} THEN SENTRY_DEBUG
      ELSE log_calls[CHOOSE k \in sets : \A j \in sets : j <= k].arg

\* the calls that must print: log calls whose level is at least the level
\* current at the call
MustPrint ==
  {n \in DOMAIN log_calls :
     log_calls[n].call = "log" /\ log_calls[n].arg >= LevelAt(n)}

\* C15: the level starts at SENTRY_DEBUG, sentry_set_log_level(l) makes it
\* exactly l, and a message of level m is printed iff m >= the level current
\* at its call, with DEBUG < INFO < WARN < ERROR.
C15_LogFiltering ==
  /\ SENTRY_DEBUG < SENTRY_INFO /\ SENTRY_INFO < SENTRY_WARN
  /\ SENTRY_WARN < SENTRY_ERROR
  /\ sentry_log_level = LevelAt(Len(log_calls) + 1)
  /\ {log_out[k].msg : k \in DOMAIN log_out} = MustPrint
  /\ \A k \in DOMAIN log_out :
       /\ log_out[k].label = _sentry_level_to_str(log_calls[log_out[k].msg].arg)
       /\ \A j \in DOMAIN log_out : j < k => log_out[j].msg < log_out[k].msg

\* after sentry_set_log_level(SENTRY_WARN) a WARN message was printed and a
\* lower one was not
C15_Witness ==
  /\ sentry_log_level = SENTRY_WARN
  /\ \E a, b, c \in DOMAIN log_calls :
       /\ a < b /\ a < c
       /\ log_calls[a] = [call |-> "set", arg |-> SENTRY_WARN]
       /\ log_calls[b] = [call |-> "log", arg |-> SENTRY_INFO]
       /\ log_calls[c] = [call |-> "log", arg |-> SENTRY_WARN]
       /\ \A k \in DOMAIN log_out : log_out[k].msg # b
       /\ \E k \in DOMAIN log_out : log_out[k] = [label |-> "WARN", msg |-> c]

(***************************************************************************)
(* Properties of ticky.h                                                   *)
(***************************************************************************)
\* C16: after k calls of ticky_bench on one stats object n_results = k and
\* results[i] holds the name of call i + 1 for every i < k (k = 0 right
\* after ticky_new_stats).
C16_BenchRecording ==
  /\ stats.n_results = Len(bench_names)
  /\ \A i \in 0 .. Len(bench_names) - 1 :
       /\ i \in DOMAIN stats.results
       /\ stats.results[i] = bench_names[i + 1]

\* C28: every ticky_bench call stores its result at an index below the 100
\* slots that ticky_new_stats allocated, and n_results never exceeds 100.
C28_StoresInBounds ==
  [][bench_names' # bench_names =>
       /\ stats.n_results < TICKY_CAPACITY
       /\ stats'.n_results <= TICKY_CAPACITY]_vars

(***************************************************************************)
(* Properties of picky.h                                                   *)
(***************************************************************************)
\* C17: when every picky_test is followed by exactly one assertion,
\* picky_end reports Tests Total = number of picky_test calls, Tests Passed
\* = number of assertions that held, Tests Failed = number that did not, and
\* Total = Passed + Failed.
C17_TestCounting ==
  picky_run.pc = "ended" =>
    /\ picky_report = << picky_run.tests, picky_run.held, picky_run.failed >>
    /\ picky_report[1] = picky_report[2] + picky_report[3]

(***************************************************************************)
(* Properties of saul.h                                                    *)
(***************************************************************************)
\* the last call made
LastCall == saul_calls[Len(saul_calls)]

InBounds(mat, i, j) == 0 <= i /\ i < mat.rows /\ 0 <= j /\ j < mat.cols

\* C18: saul_matrix_set_value(m, i, j, v) returns 0 and changes exactly
\* element [i][j] when 0 <= i < rows and 0 <= j < cols, else returns -1 and
\* changes nothing; saul_check_boundaries returns 1 and -1 respectively.
C18_SetValueBoundsChecked ==
  [][SaulSetValue =>
       LET c == saul_calls'[Len(saul_calls')]
       IN  IF InBounds(mat1, c.i, c.j)
           THEN /\ saul_ret' = 0
                /\ saul_check_boundaries(mat1, c.i, c.j) = 1
                /\ mat1'.rows = mat1.rows /\ mat1'.cols = mat1.cols
                /\ \A i \in 0 .. mat1.rows - 1, j \in 0 .. mat1.cols - 1 :
                     mat1'.items[i][j] =
                       IF i = c.i /\ j = c.j THEN c.value ELSE mat1.items[i][j]
           ELSE /\ saul_ret' = -1
                /\ saul_check_boundaries(mat1, c.i, c.j) = -1
                /\ mat1' = mat1]_vars

\* a write at column cols was refused after a write inside the matrix was
\* done
C18_Witness ==
  /\ saul_ncalls = 2
  /\ LastCall.fn = "saul_matrix_set_value"
  /\ LastCall.j = mat1.cols /\ LastCall.i = 0
  /\ saul_ret = -1
  /\ \E i \in 0 .. mat1.rows - 1, j \in 0 .. mat1.cols - 1 :
       mat1.items[i][j] = 9

\* every element is a whole number (an even number of halves)
IntegerValued(mat) ==
  \A i \in 0 .. mat.rows - 1, j \in 0 .. mat.cols - 1 : mat.items[i][j] % 2 = 0

SameDims(a, b) == a.rows = b.rows /\ a.cols = b.cols

\* C19: on integer-valued matrices of equal dimensions saul_matrix_add
\* returns 0 and makes every m1[i][j] the sum m1[i][j] + m2[i][j],
\* saul_matrix_sub the difference, m2 is unchanged, and a sub right after an
\* add restores m1; on different dimensions both return -1 and change
\* nothing.
C19_AddSubElementwise ==
  [][(SaulAdd \/ SaulSub) =>
       LET c == saul_calls'[Len(saul_calls')]
           sign == IF c.fn = "saul_matrix_add" THEN 1 ELSE -1
       IN  /\ mat2' = mat2
           /\ ~SameDims(mat1, mat2) => (saul_ret' = -1 /\ mat1' = mat1)
           /\ (SameDims(mat1, mat2) /\ IntegerValued(mat1) /\ IntegerValued(mat2))
                => /\ saul_ret' = 0
                   /\ SameDims(mat1', mat1)
                   /\ \A i \in 0 .. mat1.rows - 1, j \in 0 .. mat1.cols - 1 :
                        mat1'.items[i][j] =
                          mat1.items[i][j] + sign * mat2.items[i][j]
           /\ (/\ c.fn = "saul_matrix_sub"
               /\ saul_calls # << >>
               /\ LastCall.fn = "saul_matrix_add"
               /\ SameDims(mat1, mat2)
               /\ IntegerValued(LastCall.before) /\ IntegerValued(mat2))
                => mat1' = LastCall.before]_vars

(***************************************************************************)
(* Properties of sentry.h with several threads                             *)
(***************************************************************************)
\* thread t is between pthread_mutex_lock and pthread_mutex_unlock
Holding(t) == threads[t].pc \in {"print", "unlock"}

\* one thread at a time prints, the mutex is owned exactly by that thread,
\* and the pieces of the line on the terminal come in order from one thread
OneLineAtATime ==
  /\ \A t1, t2 \in Threads : Holding(t1) /\ Holding(t2) => t1 = t2
  /\ \A t \in Threads : Holding(t) <=> _sentry_mutex_internal = t
  /\ \A i \in DOMAIN term_line :
       term_line[i] = [thread |-> term_line[1].thread, part |-> i]

\* a thread whose message is below the level returns from the test without
\* a change to the mutex or to the output
FilteredStep ==
  \A t \in Threads :
    /\ threads[t].pc = "test"
    /\ threads[t].level < sentry_log_level
    /\ threads'[t] # threads[t]
    => /\ threads'[t].pc = "idle"
       /\ UNCHANGED <<_sentry_mutex_internal, term_line>>

\* C27: with several threads in the logging macros at most one thread at a
\* time is between the first and the last print of a line and lines are
\* not interleaved, the mutex is held only between lock and unlock, a
\* filtered call does not touch the mutex, and under fair scheduling every
\* call returns.
C27_ThreadSafeLogging ==
  /\ []OneLineAtATime
  /\ [][FilteredStep]_vars
  /\ \A t \in Threads : threads[t].pc # "idle" ~> threads[t].pc = "idle"

\* at level WARN thread 1 is in the middle of its line while thread 2, in
\* its second call, waits for the mutex
C27_Witness ==
  /\ sentry_log_level = SENTRY_WARN
  /\ threads[1].pc = "print"
  /\ threads[1].part = 3
  /\ Len(term_line) = 2
  /\ threads[2].pc = "lock"
  /\ threads[2].n = 2

====
